---- MODULE Spec2Model ----
(***************************************************************************)
(* State-machine model of scan.py (bucket-antivirus-function): the lambda  *)
(* handler that decodes an SNS event, downloads the S3 object, scans it    *)
(* with ClamAV and publishes the verdict to metadata, tags, SNS, a webhook *)
(* and metrics, then removes the local file.                               *)
(*                                                                         *)
(* Strings that the code transforms (bucket, key, webhook, paths) are      *)
(* sequences of one-character strings.  Every external call (S3, ClamAV,   *)
(* SNS, HTTP, metrics) may succeed or raise; an exception that escapes a   *)
(* function escapes lambda_handler, which has no handler except around     *)
(* os.remove.                                                              *)
(***************************************************************************)
EXTENDS Integers, Sequences, FiniteSets, TLC

VARIABLES
    event,        \* per invocation: the decoded JSON message of the SNS record
    pc,           \* per invocation: the statement of lambda_handler about to run
    s3_object,    \* per invocation: local s3_object (bucket_name, key)
    webhook,      \* per invocation: local webhook
    auth,         \* per invocation: local auth
    file_path,    \* per invocation: local file_path
    scan_result,  \* per invocation: local scan_result
    scan_output,  \* per invocation: local scan_output
    curr_tags,    \* per invocation: set_av_tags' local curr_tags
    error,        \* per invocation: the exception that escaped lambda_handler
    calls,        \* per invocation: the external calls performed, in order
    sinks,        \* per invocation: the sink functions entered, with the result passed
    environ,      \* os.environ: the set of variable names defined
    sns_arn,      \* AV_STATUS_SNS_ARN (None when not configured)
    tagging,      \* S3: object -> TagSet
    metadata,     \* S3: object -> user metadata (set of key/value pairs as a function)
    content_type, \* S3: object -> Content-Type
    fs,           \* local file system: path -> invocation whose download wrote the file
    now           \* the wall clock read by datetime.utcnow()

vars == <<event, pc, s3_object, webhook, auth, file_path, scan_result, scan_output,
          curr_tags, error, calls, sinks, environ, sns_arn, tagging, metadata,
          content_type, fs, now>>

locals == <<s3_object, webhook, auth, file_path, scan_result, scan_output, curr_tags>>
s3vars == <<tagging, metadata, content_type>>
config == <<event, environ, sns_arn>>

-----------------------------------------------------------------------------
(* Bounds *)

\* the clock takes the values 0..MaxTime
MaxTime == 2
\* initial tag sets hold at most MaxTags tags
MaxTags == 2

-----------------------------------------------------------------------------
(* Values *)

Invocations == {"i1", "i2"}

None == "None"
\* a key that is absent from the JSON message
MISSING == <<"MISSING">>
\* an s3_object / path / tag list local that is not bound yet
Unbound == <<"Unbound">>

AV_STATUS_METADATA == "av-status"
AV_TIMESTAMP_METADATA == "av-timestamp"

CLEAN == "CLEAN"
INFECTED == "INFECTED"
ERROR == "ERROR"
Verdicts == {CLEAN, INFECTED, ERROR}
Outputs == {"Eicar-Test-Signature", "OK"}

\* datetime.strftime("%Y/%m/%d %H:%M:%S UTC"): one string per second of the clock
TimeStrings == <<"1970/01/01 00:00:00 UTC", "1970/01/01 00:00:01 UTC",
                 "1970/01/01 00:00:02 UTC", "1970/01/01 00:00:03 UTC",
                 "1970/01/01 00:00:04 UTC", "1970/01/01 00:00:05 UTC">>
Strftime(t) == TimeStrings[t + 1]

\* raw message fields
RawBuckets == {MISSING, <<>>, <<"b">>}
RawKeys == {MISSING, <<>>, <<"k">>, <<"x", "%", "2", "F", "k", "+", "y">>}
RawWebhooks == {MISSING, <<>>, <<"h", "/", ":", "s", "e", "r", "v", "i", "c", "e">>}
RawAuths == {MISSING, <<"t">>}

Messages == [bucket : RawBuckets, key : RawKeys, webhook : RawWebhooks, auth : RawAuths]
NoMessage == [bucket |-> MISSING, key |-> MISSING, webhook |-> MISSING, auth |-> MISSING]

-----------------------------------------------------------------------------
(* String helpers *)

\* str.replace('+', ' ')
PlusToSpace(s) == [n \in 1..Len(s) |-> IF s[n] = "+" THEN " " ELSE s[n]]

\* urllib._hextochr restricted to the escapes of the modelled alphabet
HexPairs == {<<"2", "F">>, <<"2", "f">>, <<"2", "B">>, <<"2", "0">>}
HexToChr(p) ==
    CASE p = <<"2", "F">> -> "/"
      [] p = <<"2", "f">> -> "/"
      [] p = <<"2", "B">> -> "+"
      [] p = <<"2", "0">> -> " "

\* urllib.unquote: a '%' followed by a known hex pair becomes the character,
\* any other '%' is kept
RECURSIVE Unquote(_)
Unquote(s) ==
    IF s = <<>> THEN <<>>
    ELSE IF s[1] = "%" /\ Len(s) >= 3 /\ <<s[2], s[3]>> \in HexPairs
         THEN <<HexToChr(<<s[2], s[3]>>)>> \o Unquote(SubSeq(s, 4, Len(s)))
         ELSE <<s[1]>> \o Unquote(Tail(s))

\* urllib.unquote_plus
UnquotePlus(s) == Unquote(PlusToSpace(s))

IsPrefix(p, s) == Len(p) <= Len(s) /\ SubSeq(s, 1, Len(p)) = p

\* str.replace(old, new), old non-empty
RECURSIVE Replace(_, _, _)
Replace(s, old, new) ==
    IF s = <<>> THEN <<>>
    ELSE IF IsPrefix(old, s)
         THEN new \o Replace(SubSeq(s, Len(old) + 1, Len(s)), old, new)
         ELSE <<s[1]>> \o Replace(Tail(s), old, new)

ServicePlaceholder == <<":", "s", "e", "r", "v", "i", "c", "e">>
ServiceName == <<"a", "n", "t", "i", "v", "i", "r", "u", "s">>

\* os.path.basename: what follows the last '/'
RECURSIVE Basename(_)
Basename(s) ==
    IF \E n \in 1..Len(s) : s[n] = "/"
    THEN Basename(Tail(s))
    ELSE s

\* "%s/%s/%s" % (local_prefix, bucket_name, key)
LocalPath(local_prefix, bucket, key) == local_prefix \o <<"/">> \o bucket \o <<"/">> \o key

TmpPrefix == <<"/", "t", "m", "p">>

-----------------------------------------------------------------------------
(* S3 objects, tags, local paths *)

\* the objects the modelled events can name
Objects ==
    {[bucket_name |-> b, key |-> UnquotePlus(k)] :
        b \in RawBuckets \ {MISSING, <<>>}, k \in RawKeys \ {MISSING, <<>>}}

NoObject == [bucket_name |-> Unbound, key |-> Unbound]

Paths == {LocalPath(TmpPrefix, o.bucket_name, o.key) : o \in Objects}

Tag(k, v) == [Key |-> k, Value |-> v]

\* the tags an object may carry before an invocation
TagUniverse ==
    {Tag(AV_STATUS_METADATA, CLEAN), Tag(AV_STATUS_METADATA, INFECTED),
     Tag(AV_TIMESTAMP_METADATA, Strftime(0)), Tag("owner", "me")}

SeqsUpTo(S, n) == UNION {[1..m -> S] : m \in 0..n}

InitTagSets == SeqsUpTo(TagUniverse, MaxTags)

MetaKeys == {AV_STATUS_METADATA, AV_TIMESTAMP_METADATA, "owner"}
NoMetadata == [k \in MetaKeys |-> None]
ContentTypes == {"text/plain", "application/pdf"}

\* list.remove(x): drop the first element equal to x
RECURSIVE ListRemove(_, _)
ListRemove(l, x) ==
    IF l = <<>> THEN <<>>
    ELSE IF l[1] = x THEN Tail(l)
         ELSE <<l[1]>> \o ListRemove(Tail(l), x)

\* the loop of set_av_tags over curr_tags[n..], removing from new_tags
RECURSIVE RemoveAvTags(_, _, _)
RemoveAvTags(curr, n, new_tags) ==
    IF n > Len(curr) THEN new_tags
    ELSE IF curr[n].Key \in {AV_STATUS_METADATA, AV_TIMESTAMP_METADATA}
         THEN RemoveAvTags(curr, n + 1, ListRemove(new_tags, curr[n]))
         ELSE RemoveAvTags(curr, n + 1, new_tags)

\* set_av_tags writing only the two fresh tags
NewTags_OnlyAv(curr, result, timestamp) ==
    <<Tag(AV_STATUS_METADATA, result), Tag(AV_TIMESTAMP_METADATA, timestamp)>>

\* set_av_tags without the removal loop
NewTags_KeepOld(curr, result, timestamp) ==
    curr \o <<Tag(AV_STATUS_METADATA, result), Tag(AV_TIMESTAMP_METADATA, timestamp)>>

\* the TagSet that set_av_tags writes back
NewTags(curr, result, timestamp) ==
    RemoveAvTags(curr, 1, curr)
        \o <<Tag(AV_STATUS_METADATA, result), Tag(AV_TIMESTAMP_METADATA, timestamp)>>

\* set_av_metadata building a fresh dict
NewMetadata_Fresh(md, result, timestamp) ==
    [k \in MetaKeys |->
        IF k = AV_STATUS_METADATA THEN result
        ELSE IF k = AV_TIMESTAMP_METADATA THEN timestamp
        ELSE None]

\* set_av_metadata with the two values swapped
NewMetadata_Swapped(md, result, timestamp) ==
    [md EXCEPT ![AV_STATUS_METADATA] = timestamp, ![AV_TIMESTAMP_METADATA] = result]

\* the Metadata that set_av_metadata passes to copy
NewMetadata(md, result, timestamp) ==
    [md EXCEPT ![AV_STATUS_METADATA] = result, ![AV_TIMESTAMP_METADATA] = timestamp]

\* webhook_scan_results sending the whole key as the file name
WebhookMessage_FullKey(key, result, output) ==
    [filename |-> key,
     is_infected |-> (result = INFECTED),
     status |-> "success",
     result |-> IF result = INFECTED THEN <<"INFECTED: ", output>> ELSE <<"clean">>]

\* the JSON body of the webhook-result PATCH
WebhookMessage(key, result, output) ==
    [filename |-> Basename(key),
     is_infected |-> (result = INFECTED),
     status |-> "success",
     result |-> IF result = INFECTED THEN <<"INFECTED: ", output>> ELSE <<"clean">>]

-----------------------------------------------------------------------------
(* Bookkeeping of what an invocation did *)

Call(i, op, ok, status, arg) ==
    calls' = [calls EXCEPT ![i] = Append(@, [op |-> op, ok |-> ok, status |-> status, arg |-> arg])]

Sink(i, name, status) ==
    sinks' = [sinks EXCEPT ![i] = Append(@, [sink |-> name, status |-> status])]

\* an exception escapes lambda_handler
Raise(i, exc) ==
    /\ pc' = [pc EXCEPT ![i] = "raised"]
    /\ error' = [error EXCEPT ![i] = exc]

Goto(i, next) ==
    /\ pc' = [pc EXCEPT ![i] = next]
    /\ UNCHANGED error

-----------------------------------------------------------------------------
(* lambda_handler, statement by statement *)

\* line 33: (not bucket) or (not key)
MalformedObject_And(bucket, key) == bucket = <<>> /\ key = <<>>
MalformedObject(bucket, key) == bucket = <<>> \/ key = <<>>

\* line 134: s3_object = event_object(event)
EventObject(i) ==
    /\ pc[i] = "event_object"
    /\ LET m == event[i] IN
         IF m.bucket = MISSING \/ m.key = MISSING
         THEN /\ Raise(i, "KeyError")
              /\ UNCHANGED s3_object
         ELSE IF MalformedObject(m.bucket, UnquotePlus(m.key))
         THEN /\ Raise(i, "Exception")
              /\ UNCHANGED s3_object
         ELSE /\ s3_object' = [s3_object EXCEPT
                     ![i] = [bucket_name |-> m.bucket, key |-> UnquotePlus(m.key)]]
              /\ Goto(i, "event_webhook")
    /\ UNCHANGED <<webhook, auth, file_path, scan_result, scan_output, curr_tags>>
    /\ UNCHANGED <<calls, sinks, config, s3vars, fs, now>>

\* line 135: (webhook, auth) = event_webhook(event)
EventWebhook(i) ==
    /\ pc[i] = "event_webhook"
    /\ LET m == event[i] IN
         IF m.webhook = MISSING \/ m.auth = MISSING
         THEN /\ Raise(i, "KeyError")
              /\ UNCHANGED <<webhook, auth>>
         ELSE LET w == Replace(UnquotePlus(m.webhook), ServicePlaceholder, ServiceName) IN
              IF w = <<>>
              THEN /\ Raise(i, "Exception")
                   /\ UNCHANGED <<webhook, auth>>
              ELSE /\ webhook' = [webhook EXCEPT ![i] = w]
                   /\ auth' = [auth EXCEPT ![i] = m.auth]
                   /\ Goto(i, "webhook_scan_started")
    /\ UNCHANGED <<s3_object, file_path, scan_result, scan_output, curr_tags>>
    /\ UNCHANGED <<calls, sinks, config, s3vars, fs, now>>

\* lines 107, 114: webhook == ''
WebhookEmpty_Inverted(w) == w # <<>>
WebhookEmpty(w) == w = <<>>

\* line 136: webhook_scan_started(s3_object, webhook, auth)
WebhookScanStarted(i) ==
    /\ pc[i] = "webhook_scan_started"
    /\ Sink(i, "webhook_scan_started", None)
    /\ IF WebhookEmpty(webhook[i])
       THEN /\ Goto(i, "download_s3_object")
            /\ UNCHANGED calls
       ELSE \E ok \in BOOLEAN :
            /\ Call(i, "post", ok, None, [url |-> webhook[i], auth |-> auth[i]])
            /\ IF ok THEN Goto(i, "download_s3_object") ELSE Raise(i, "RequestException")
    /\ UNCHANGED <<locals, config, s3vars, fs, now>>

\* lambda_handler updating the definitions before it downloads the object
DownloadS3Object_AfterUpdate(i) ==
    /\ pc[i] = "download_s3_object"
    /\ LET local_path == LocalPath(TmpPrefix, s3_object[i].bucket_name, s3_object[i].key) IN
       \E ok \in BOOLEAN :
         /\ calls' = [calls EXCEPT ![i] =
                @ \o <<[op |-> "update_defs_from_s3", ok |-> TRUE, status |-> None,
                        arg |-> [path |-> local_path]],
                       [op |-> "download_file", ok |-> ok, status |-> None,
                        arg |-> [path |-> local_path]]>>]
         /\ IF ok
            THEN /\ fs' = [fs EXCEPT ![local_path] = i]
                 /\ file_path' = [file_path EXCEPT ![i] = local_path]
                 /\ Goto(i, "scan_file")
            ELSE /\ Raise(i, "ClientError")
                 /\ UNCHANGED <<fs, file_path>>
    /\ UNCHANGED <<s3_object, webhook, auth, scan_result, scan_output, curr_tags>>
    /\ UNCHANGED <<sinks, config, s3vars, now>>

\* line 137: file_path = download_s3_object(s3_object, "/tmp")
DownloadS3Object(i) ==
    /\ pc[i] = "download_s3_object"
    /\ LET local_path == LocalPath(TmpPrefix, s3_object[i].bucket_name, s3_object[i].key) IN
       \E ok \in BOOLEAN :
         /\ Call(i, "download_file", ok, None, [path |-> local_path])
         /\ IF ok
            THEN /\ fs' = [fs EXCEPT ![local_path] = i]
                 /\ file_path' = [file_path EXCEPT ![i] = local_path]
                 /\ Goto(i, "update_defs_from_s3")
            ELSE /\ Raise(i, "ClientError")
                 /\ UNCHANGED <<fs, file_path>>
    /\ UNCHANGED <<s3_object, webhook, auth, scan_result, scan_output, curr_tags>>
    /\ UNCHANGED <<sinks, config, s3vars, now>>

\* lambda_handler scanning with stale definitions when the update raises
UpdateDefsFromS3_Swallow(i) ==
    /\ pc[i] = "update_defs_from_s3"
    /\ \E ok \in BOOLEAN :
         /\ Call(i, "update_defs_from_s3", ok, None, [path |-> file_path[i]])
         /\ Goto(i, "scan_file")
    /\ UNCHANGED <<locals, sinks, config, s3vars, fs, now>>

\* line 138: clamav.update_defs_from_s3(...)
UpdateDefsFromS3(i) ==
    /\ pc[i] = "update_defs_from_s3"
    /\ \E ok \in BOOLEAN :
         /\ Call(i, "update_defs_from_s3", ok, None, [path |-> file_path[i]])
         /\ IF ok THEN Goto(i, "scan_file") ELSE Raise(i, "Exception")
    /\ UNCHANGED <<locals, sinks, config, s3vars, fs, now>>

\* line 141: "AV_UPDATE_METADATA" in os.environ
MetadataEnabled_Always == TRUE
MetadataEnabled == "AV_UPDATE_METADATA" \in environ

\* lambda_handler scanning again when the scan raises
ScanFile_Retry(i) ==
    /\ pc[i] = "scan_file"
    /\ \/ /\ Call(i, "scan_file", FALSE, None, [path |-> file_path[i]])
          /\ Goto(i, "scan_file")
          /\ UNCHANGED <<scan_result, scan_output>>
       \/ \E r \in Verdicts, o \in Outputs :
          /\ Call(i, "scan_file", TRUE, r, [path |-> file_path[i]])
          /\ scan_result' = [scan_result EXCEPT ![i] = r]
          /\ scan_output' = [scan_output EXCEPT ![i] = o]
          /\ Goto(i, IF MetadataEnabled THEN "set_av_metadata" ELSE "set_av_tags")
    /\ UNCHANGED <<s3_object, webhook, auth, file_path, curr_tags>>
    /\ UNCHANGED <<sinks, config, s3vars, fs, now>>

\* lambda_handler reporting to metrics when the scan raises, before re-raising
ScanFile_MetricsOnFailure(i) ==
    /\ pc[i] = "scan_file"
    /\ \/ /\ Call(i, "scan_file", FALSE, None, [path |-> file_path[i]])
          /\ Sink(i, "metrics_send", ERROR)
          /\ Raise(i, "Exception")
          /\ UNCHANGED <<scan_result, scan_output>>
       \/ \E r \in Verdicts, o \in Outputs :
          /\ Call(i, "scan_file", TRUE, r, [path |-> file_path[i]])
          /\ scan_result' = [scan_result EXCEPT ![i] = r]
          /\ scan_output' = [scan_output EXCEPT ![i] = o]
          /\ Goto(i, IF MetadataEnabled THEN "set_av_metadata" ELSE "set_av_tags")
          /\ UNCHANGED sinks
    /\ UNCHANGED <<s3_object, webhook, auth, file_path, curr_tags>>
    /\ UNCHANGED <<config, s3vars, fs, now>>

\* lines 139-141: (scan_result, scan_output) = clamav.scan_file(file_path),
\* then the test of AV_UPDATE_METADATA
ScanFile(i) ==
    /\ pc[i] = "scan_file"
    /\ \/ /\ Call(i, "scan_file", FALSE, None, [path |-> file_path[i]])
          /\ Raise(i, "Exception")
          /\ UNCHANGED <<scan_result, scan_output>>
       \/ \E r \in Verdicts, o \in Outputs :
          /\ Call(i, "scan_file", TRUE, r, [path |-> file_path[i]])
          /\ scan_result' = [scan_result EXCEPT ![i] = r]
          /\ scan_output' = [scan_output EXCEPT ![i] = o]
          /\ Goto(i, IF MetadataEnabled THEN "set_av_metadata" ELSE "set_av_tags")
    /\ UNCHANGED <<s3_object, webhook, auth, file_path, curr_tags>>
    /\ UNCHANGED <<sinks, config, s3vars, fs, now>>

\* lines 142, 56-71: set_av_metadata(s3_object, scan_result)
SetAvMetadata(i) ==
    /\ pc[i] = "set_av_metadata"
    /\ Sink(i, "set_av_metadata", scan_result[i])
    /\ \E t \in now..MaxTime, ok \in BOOLEAN :
         LET o == s3_object[i]
             md == NewMetadata(metadata[o], scan_result[i], Strftime(t))
         IN /\ now' = t
            /\ Call(i, "copy", ok, scan_result[i],
                    [ContentType |-> content_type[o], Metadata |-> md,
                     MetadataDirective |-> "REPLACE"])
            /\ IF ok
               THEN /\ metadata' = [metadata EXCEPT ![o] = md]
                    /\ Goto(i, "set_av_tags")
               ELSE /\ Raise(i, "ClientError")
                    /\ UNCHANGED metadata
    /\ UNCHANGED <<locals, config, tagging, content_type, fs>>

\* lines 143, 75: set_av_tags(s3_object, scan_result) up to get_object_tagging
GetObjectTagging(i) ==
    /\ pc[i] = "set_av_tags"
    /\ Sink(i, "set_av_tags", scan_result[i])
    /\ \E ok \in BOOLEAN :
         /\ Call(i, "get_object_tagging", ok, None, [key |-> s3_object[i].key])
         /\ IF ok
            THEN /\ curr_tags' = [curr_tags EXCEPT ![i] = tagging[s3_object[i]]]
                 /\ Goto(i, "put_object_tagging")
            ELSE /\ Raise(i, "ClientError")
                 /\ UNCHANGED curr_tags
    /\ UNCHANGED <<s3_object, webhook, auth, file_path, scan_result, scan_output>>
    /\ UNCHANGED <<config, s3vars, fs, now>>

\* lines 76-86: the rest of set_av_tags, ending in put_object_tagging
PutObjectTagging(i) ==
    /\ pc[i] = "put_object_tagging"
    /\ \E t \in now..MaxTime, ok \in BOOLEAN :
         LET new_tags == NewTags(curr_tags[i], scan_result[i], Strftime(t)) IN
         /\ now' = t
         /\ Call(i, "put_object_tagging", ok, scan_result[i], [TagSet |-> new_tags])
         /\ IF ok
            THEN /\ tagging' = [tagging EXCEPT ![s3_object[i]] = new_tags]
                 /\ Goto(i, "sns_scan_results")
            ELSE /\ Raise(i, "ClientError")
                 /\ UNCHANGED tagging
    /\ UNCHANGED <<locals, sinks, config, metadata, content_type, fs>>

\* line 90: AV_STATUS_SNS_ARN is None
SnsDisabled_Inverted == sns_arn # None
SnsDisabled == sns_arn = None

\* lines 144, 89-103: sns_scan_results(s3_object, scan_result)
SnsScanResults(i) ==
    /\ pc[i] = "sns_scan_results"
    /\ Sink(i, "sns_scan_results", scan_result[i])
    /\ IF SnsDisabled
       THEN /\ Goto(i, "webhook_scan_results")
            /\ UNCHANGED <<calls, now>>
       ELSE \E t \in now..MaxTime, ok \in BOOLEAN :
            /\ now' = t
            /\ Call(i, "publish", ok, scan_result[i],
                    [TargetArn |-> sns_arn, bucket |-> s3_object[i].bucket_name,
                     key |-> s3_object[i].key, timestamp |-> Strftime(t)])
            /\ IF ok THEN Goto(i, "webhook_scan_results") ELSE Raise(i, "ClientError")
    /\ UNCHANGED <<locals, config, s3vars, fs>>

\* lines 145, 113-127: webhook_scan_results(s3_object, scan_result, scan_output, webhook, auth)
WebhookScanResults(i) ==
    /\ pc[i] = "webhook_scan_results"
    /\ Sink(i, "webhook_scan_results", scan_result[i])
    /\ IF WebhookEmpty(webhook[i])
       THEN /\ Goto(i, "metrics_send")
            /\ UNCHANGED calls
       ELSE \E ok \in BOOLEAN :
            /\ Call(i, "patch", ok, scan_result[i],
                    [url |-> webhook[i], auth |-> auth[i],
                     json |-> WebhookMessage(s3_object[i].key, scan_result[i], scan_output[i])])
            /\ IF ok THEN Goto(i, "metrics_send") ELSE Raise(i, "RequestException")
    /\ UNCHANGED <<locals, config, s3vars, fs, now>>

\* line 146: metrics.send(env=ENV, bucket=..., key=..., status=scan_result)
MetricsSend(i) ==
    /\ pc[i] = "metrics_send"
    /\ Sink(i, "metrics_send", scan_result[i])
    /\ \E ok \in BOOLEAN :
         /\ Call(i, "metrics_send", ok, scan_result[i],
                 [bucket |-> s3_object[i].bucket_name, key |-> s3_object[i].key])
         /\ IF ok THEN Goto(i, "os_remove") ELSE Raise(i, "Exception")
    /\ UNCHANGED <<locals, config, s3vars, fs, now>>

\* lambda_handler without the try/except around os.remove
OsRemove_Surfaces(i) ==
    /\ pc[i] = "os_remove"
    /\ IF fs[file_path[i]] # None
       THEN /\ fs' = [fs EXCEPT ![file_path[i]] = None]
            /\ Call(i, "remove", TRUE, None, [path |-> file_path[i]])
            /\ Goto(i, "returned")
       ELSE /\ UNCHANGED fs
            /\ Call(i, "remove", FALSE, None, [path |-> file_path[i]])
            /\ Raise(i, "OSError")
    /\ UNCHANGED <<locals, sinks, config, s3vars, now>>

\* lines 148-153: os.remove(file_path), OSError swallowed, then return
OsRemove(i) ==
    /\ pc[i] = "os_remove"
    /\ IF fs[file_path[i]] # None
       THEN /\ fs' = [fs EXCEPT ![file_path[i]] = None]
            /\ Call(i, "remove", TRUE, None, [path |-> file_path[i]])
       ELSE /\ UNCHANGED fs
            /\ Call(i, "remove", FALSE, None, [path |-> file_path[i]])
    /\ Goto(i, "returned")
    /\ UNCHANGED <<locals, sinks, config, s3vars, now>>

\* one statement of invocation i of lambda_handler
Step(i) ==
    \/ EventObject(i)
    \/ EventWebhook(i)
    \/ WebhookScanStarted(i)
    \/ DownloadS3Object(i)
    \/ UpdateDefsFromS3(i)
    \/ ScanFile(i)
    \/ SetAvMetadata(i)
    \/ GetObjectTagging(i)
    \/ PutObjectTagging(i)
    \/ SnsScanResults(i)
    \/ WebhookScanResults(i)
    \/ MetricsSend(i)
    \/ OsRemove(i)

-----------------------------------------------------------------------------
(* Specifications *)

\* the locals of an invocation that has not run a statement yet
InitLocals ==
    /\ s3_object = [i \in Invocations |-> NoObject]
    /\ webhook = [i \in Invocations |-> Unbound]
    /\ auth = [i \in Invocations |-> Unbound]
    /\ file_path = [i \in Invocations |-> Unbound]
    /\ scan_result = [i \in Invocations |-> None]
    /\ scan_output = [i \in Invocations |-> None]
    /\ curr_tags = [i \in Invocations |-> Unbound]
    /\ error = [i \in Invocations |-> None]
    /\ calls = [i \in Invocations |-> <<>>]
    /\ sinks = [i \in Invocations |-> <<>>]

InitConfig ==
    /\ environ \in {{}, {"AV_UPDATE_METADATA"}}
    /\ sns_arn \in {None, "arn:aws:sns:status"}

\* the tag sets an object carries when lambda_handler runs as a whole: never
\* scanned, or tagged INFECTED by an earlier scan (set_av_tags alone is run on
\* every tag set of InitTagSets)
HandlerTagSets ==
    {<<>>,
     <<Tag("owner", "me"), Tag(AV_STATUS_METADATA, INFECTED),
       Tag(AV_TIMESTAMP_METADATA, Strftime(0))>>}

InitS3 ==
    /\ \E ts \in HandlerTagSets : tagging = [o \in Objects |-> ts]
    /\ \E md \in {NoMetadata,
                  [NoMetadata EXCEPT ![AV_STATUS_METADATA] = INFECTED, !["owner"] = "me"]} :
         metadata = [o \in Objects |-> md]
    /\ \E ct \in ContentTypes : content_type = [o \in Objects |-> ct]

\* one invocation, any event, nothing on the local disk
Init ==
    /\ \E m \in Messages : event = [i \in Invocations |-> IF i = "i1" THEN m ELSE NoMessage]
    /\ pc = [i \in Invocations |-> IF i = "i1" THEN "event_object" ELSE "idle"]
    /\ InitLocals
    /\ InitConfig
    /\ InitS3
    /\ fs = [p \in Paths |-> None]
    /\ now = 0

Next == \E i \in Invocations : Step(i)

Spec == Init /\ [][Next]_vars

\* the messages that pass event_object and event_webhook
ValidMessages ==
    {m \in Messages :
        /\ m.bucket \notin {MISSING, <<>>} /\ m.key \notin {MISSING, <<>>}
        /\ m.webhook \notin {MISSING, <<>>} /\ m.auth # MISSING}

\* two invocations of lambda_handler running in the same container at the same
\* time, both delivered the same valid event (same bucket and key); the object
\* carries no tags yet and the clock does not advance during the two runs
InitConc ==
    /\ \E m \in ValidMessages : event = [i \in Invocations |-> m]
    /\ pc = [i \in Invocations |-> "event_object"]
    /\ InitLocals
    /\ InitConfig
    /\ tagging = [o \in Objects |-> <<>>]
    /\ metadata = [o \in Objects |-> NoMetadata]
    /\ content_type = [o \in Objects |-> "text/plain"]
    /\ fs = [p \in Paths |-> None]
    /\ now = MaxTime

SpecConc == InitConc /\ [][Next]_vars

\* set_av_tags called twice in succession on one object (a re-delivery): the
\* second call starts when the first has returned or raised
TagsObject == [bucket_name |-> <<"b">>, key |-> <<"k">>]

InitTags ==
    /\ event = [i \in Invocations |-> NoMessage]
    /\ pc = [i \in Invocations |-> "set_av_tags"]
    /\ s3_object = [i \in Invocations |-> TagsObject]
    /\ webhook = [i \in Invocations |-> Unbound]
    /\ auth = [i \in Invocations |-> Unbound]
    /\ file_path = [i \in Invocations |-> Unbound]
    /\ scan_result \in [Invocations -> Verdicts]
    /\ scan_output = [i \in Invocations |-> None]
    /\ curr_tags = [i \in Invocations |-> Unbound]
    /\ error = [i \in Invocations |-> None]
    /\ calls = [i \in Invocations |-> <<>>]
    /\ sinks = [i \in Invocations |-> <<>>]
    /\ environ = {}
    /\ sns_arn = None
    /\ \E ts \in InitTagSets : tagging = [o \in Objects |-> ts]
    /\ metadata = [o \in Objects |-> NoMetadata]
    /\ content_type = [o \in Objects |-> "text/plain"]
    /\ fs = [p \in Paths |-> None]
    /\ now = 0

InSetAvTags(i) == pc[i] \in {"set_av_tags", "put_object_tagging"}

NextTags ==
    \E i \in Invocations :
        /\ i = "i2" => ~InSetAvTags("i1")
        /\ i = "i1" => pc["i2"] = "set_av_tags"
        /\ \/ GetObjectTagging(i)
           \/ PutObjectTagging(i)

SpecTags == InitTags /\ [][NextTags]_vars

\* set_av_tags called by two invocations for one object, the reads and the
\* writes interleaved in any order
NextTagsConc ==
    \E i \in Invocations :
        \/ GetObjectTagging(i)
        \/ PutObjectTagging(i)

SpecTagsConc == InitTags /\ [][NextTagsConc]_vars

\* set_av_metadata called on an object with any metadata and content type
MetadataMaps ==
    {md \in [MetaKeys -> {None, CLEAN, INFECTED, Strftime(0), "me"}] :
        /\ md[AV_STATUS_METADATA] \in {None, CLEAN, INFECTED}
        /\ md[AV_TIMESTAMP_METADATA] \in {None, Strftime(0)}
        /\ md["owner"] \in {None, "me"}}

InitMeta ==
    /\ event = [i \in Invocations |-> NoMessage]
    /\ pc = [i \in Invocations |-> "set_av_metadata"]
    /\ s3_object = [i \in Invocations |-> TagsObject]
    /\ webhook = [i \in Invocations |-> Unbound]
    /\ auth = [i \in Invocations |-> Unbound]
    /\ file_path = [i \in Invocations |-> Unbound]
    /\ scan_result \in [Invocations -> Verdicts]
    /\ scan_output = [i \in Invocations |-> None]
    /\ curr_tags = [i \in Invocations |-> Unbound]
    /\ error = [i \in Invocations |-> None]
    /\ calls = [i \in Invocations |-> <<>>]
    /\ sinks = [i \in Invocations |-> <<>>]
    /\ environ = {"AV_UPDATE_METADATA"}
    /\ sns_arn = None
    /\ tagging = [o \in Objects |-> <<>>]
    /\ \E md \in MetadataMaps : metadata = [o \in Objects |-> md]
    /\ \E ct \in ContentTypes : content_type = [o \in Objects |-> ct]
    /\ fs = [p \in Paths |-> None]
    /\ now = 0

NextMeta == \E i \in Invocations : SetAvMetadata(i)

SpecMeta == InitMeta /\ [][NextMeta]_vars

-----------------------------------------------------------------------------
(* What an invocation has done so far *)

Done(i) == pc[i] \in {"returned", "raised"}

\* the external call op was made (whether or not it succeeded)
Performed(i, op) == \E n \in DOMAIN calls[i] : calls[i][n].op = op

\* the external call op was made and raised
Failed(i, op) == \E n \in DOMAIN calls[i] : calls[i][n].op = op /\ ~calls[i][n].ok

\* the sink function was called
Entered(i, name) == \E n \in DOMAIN sinks[i] : sinks[i][n].sink = name

\* clamav.scan_file returned a verdict
HasVerdict(i) == \E n \in DOMAIN calls[i] : calls[i][n].op = "scan_file" /\ calls[i][n].ok

\* the verdict clamav.scan_file returned
Verdict(i) ==
    calls[i][CHOOSE n \in DOMAIN calls[i] : calls[i][n].op = "scan_file" /\ calls[i][n].ok].status

\* the sinks that receive the verdict and are configured for invocation i
ConfiguredSinks(i) ==
    {"set_av_tags", "metrics_send"}
        \cup (IF "AV_UPDATE_METADATA" \in environ THEN {"set_av_metadata"} ELSE {})
        \cup (IF sns_arn # None THEN {"sns_scan_results"} ELSE {})
        \cup (IF webhook[i] \notin {Unbound, <<>>} THEN {"webhook_scan_results"} ELSE {})

VerdictSinks ==
    {"set_av_metadata", "set_av_tags", "sns_scan_results", "webhook_scan_results", "metrics_send"}

\* the invocation ended with a fatal error: the event could not be decoded, or
\* the download, the definitions update or the scan raised
FatalOps == {"download_file", "update_defs_from_s3", "scan_file"}
DecodeError(i) == pc[i] = "raised" /\ \A n \in DOMAIN calls[i] : calls[i][n].ok
FatalError(i) == pc[i] = "raised" /\ (DecodeError(i) \/ \E op \in FatalOps : Failed(i, op))

CountTags(ts, k) == Cardinality({n \in DOMAIN ts : ts[n].Key = k})

-----------------------------------------------------------------------------
(* Claims *)

\* C1: once an invocation has returned or raised, the local file that its
\* download_s3_object created no longer exists.
C1_CleanupGuarantee ==
    \A i \in Invocations :
        (Done(i) /\ file_path[i] # Unbound) => fs[file_path[i]] = None

\* C2: after set_av_tags has been applied once, and again after it has been
\* applied a second time, the object's tag set holds exactly one status tag and
\* exactly one timestamp tag, and the status tag carries the result passed to
\* the latest application.
LatestTagged ==
    IF pc["i2"] = "sns_scan_results" THEN {"i2"}
    ELSE IF pc["i1"] = "sns_scan_results" THEN {"i1"}
    ELSE {}

C2_TagSinkIdempotent ==
    \A i \in LatestTagged :
        LET ts == tagging[TagsObject] IN
        /\ CountTags(ts, AV_STATUS_METADATA) = 1
        /\ CountTags(ts, AV_TIMESTAMP_METADATA) = 1
        /\ \E n \in DOMAIN ts : ts[n] = Tag(AV_STATUS_METADATA, scan_result[i])

\* both applications succeeded, the first one met several status tags and the
\* two results differ
C2_Witness ==
    /\ pc["i1"] = "sns_scan_results" /\ pc["i2"] = "sns_scan_results"
    /\ CountTags(curr_tags["i1"], AV_STATUS_METADATA) = 2
    /\ CountTags(curr_tags["i2"], AV_STATUS_METADATA) = 1
    /\ scan_result["i1"] # scan_result["i2"]

\* C3: once a verdict exists, every configured sink is attempted in that
\* invocation, also when another sink has failed.
C3_SinkIsolation ==
    \A i \in Invocations :
        (Done(i) /\ HasVerdict(i)) => \A name \in ConfiguredSinks(i) : Entered(i, name)

\* C4: in every invocation with a verdict metrics.send is invoked, and a failure
\* of metrics.send neither fails the invocation nor keeps the local file.
C4_MetricsAlwaysLast ==
    \A i \in Invocations :
        (Done(i) /\ HasVerdict(i)) =>
            /\ Entered(i, "metrics_send")
            /\ sinks[i][Len(sinks[i])].sink = "metrics_send"
            /\ Failed(i, "metrics_send") => (pc[i] = "returned" /\ fs[file_path[i]] = None)

\* C5: an event with a valid bucket and key but no webhook field, or an empty
\* one, does not fail the invocation: the object is downloaded and no webhook
\* POST or PATCH is made.
C5_WebhookOptional ==
    \A i \in Invocations :
        (/\ Done(i)
         /\ ~MalformedObject(event[i].bucket, event[i].key)
         /\ event[i].bucket # MISSING /\ event[i].key # MISSING
         /\ event[i].webhook \in {MISSING, <<>>})
        => /\ Performed(i, "download_file")
           /\ ~Performed(i, "post") /\ ~Performed(i, "patch")

\* C6: when the message has a missing or empty bucket or a missing or empty
\* key, the invocation raises and makes no external call and enters no sink.
C6_MalformedEvent ==
    \A i \in Invocations :
        (/\ pc[i] # "idle"
         /\ \/ event[i].bucket \in {MISSING, <<>>}
            \/ event[i].key \in {MISSING, <<>>})
        => /\ pc[i] \in {"event_object", "raised"}
           /\ calls[i] = <<>>
           /\ sinks[i] = <<>>
           /\ fs = [p \in Paths |-> None]
           /\ s3_object[i] = NoObject

\* an event with a bucket, a webhook and an empty key has raised
C6_Witness ==
    /\ pc["i1"] = "raised" /\ error["i1"] = "Exception"
    /\ event["i1"].bucket = <<"b">> /\ event["i1"].key = <<>>
    /\ event["i1"].webhook \notin {MISSING, <<>>} /\ event["i1"].auth # MISSING

\* C7: every sink invoked with the verdict receives the status string that
\* scan_file returned in that invocation, and what it sends carries that string.
C7_VerdictConsistency ==
    \A i \in Invocations :
        /\ \A n \in DOMAIN sinks[i] :
               sinks[i][n].sink \in VerdictSinks =>
                   HasVerdict(i) /\ sinks[i][n].status = Verdict(i)
        /\ \A n \in DOMAIN calls[i] :
               LET c == calls[i][n] IN
               /\ c.op \in {"copy", "put_object_tagging", "publish", "patch", "metrics_send"}
                      => HasVerdict(i) /\ c.status = Verdict(i)
               /\ c.op = "copy" => c.arg.Metadata[AV_STATUS_METADATA] = Verdict(i)
               /\ c.op = "put_object_tagging" =>
                      \E k \in DOMAIN c.arg.TagSet :
                          c.arg.TagSet[k] = Tag(AV_STATUS_METADATA, Verdict(i))
               /\ c.op = "patch" => c.arg.json.is_infected = (Verdict(i) = INFECTED)

\* all five verdict sinks were entered after an INFECTED verdict
C7_Witness ==
    /\ pc["i1"] = "returned"
    /\ HasVerdict("i1") /\ Verdict("i1") = INFECTED
    /\ \A name \in VerdictSinks : Entered("i1", name)
    /\ Performed("i1", "copy") /\ Performed("i1", "publish") /\ Performed("i1", "patch")

\* C8 as stated: an invocation that ends with a fatal error has invoked no sink
\* at all, the webhook-start sink included.
C8_NoSinkOnFatalError ==
    \A i \in Invocations : FatalError(i) => sinks[i] = <<>>

\* C8 amended: an invocation that ends with a fatal error has invoked none of
\* the sinks that receive the verdict; it has invoked no sink at all when the
\* event could not be decoded, and only the webhook-start sink otherwise.
C8_NoVerdictSinkOnFatalError ==
    \A i \in Invocations :
        FatalError(i) =>
            /\ \A n \in DOMAIN sinks[i] : sinks[i][n].sink \notin VerdictSinks
            /\ DecodeError(i) => sinks[i] = <<>>
            /\ ~DecodeError(i) =>
                   sinks[i] = <<[sink |-> "webhook_scan_started", status |-> None]>>

\* the scan raised after the webhook-start POST, the download and the update
C8_Witness ==
    /\ pc["i1"] = "raised" /\ Failed("i1", "scan_file")
    /\ Performed("i1", "post") /\ Performed("i1", "update_defs_from_s3")

\* C9: the local path is unique to the invocation: the file an invocation has
\* downloaded and not yet scanned is still there and is the one it wrote.
C9_PerInvocationPath ==
    \A i \in Invocations :
        pc[i] \in {"update_defs_from_s3", "scan_file"} => fs[file_path[i]] = i

\* C10: a webhook POST or PATCH is made only with a non-empty webhook URL
\* decoded from the event, a topic publish only when AV_STATUS_SNS_ARN is
\* configured; without it the topic sink returns without error and the
\* webhook-result sink, then the metrics sink, are invoked next.
C10_NoOpSinks ==
    \A i \in Invocations :
        /\ (Performed(i, "post") \/ Performed(i, "patch")) =>
               /\ event[i].webhook \notin {MISSING, <<>>}
               /\ webhook[i] \notin {Unbound, <<>>}
        /\ Performed(i, "publish") => sns_arn # None
        /\ (sns_arn = None /\ Entered(i, "sns_scan_results")) =>
               /\ ~Performed(i, "publish")
               /\ pc[i] = "webhook_scan_results" \/ Entered(i, "webhook_scan_results")
               /\ \/ pc[i] \in {"webhook_scan_results", "metrics_send"}
                  \/ Failed(i, "patch")
                  \/ Entered(i, "metrics_send")

\* without a topic the invocation went through the topic sink and returned
C10_Witness ==
    /\ sns_arn = None /\ pc["i1"] = "returned"
    /\ Entered("i1", "sns_scan_results") /\ ~Performed("i1", "publish")
    /\ Performed("i1", "post") /\ Performed("i1", "patch")
    /\ Entered("i1", "metrics_send")

-----------------------------------------------------------------------------
(* Order and multiplicity of what an invocation did *)

Ops ==
    {"post", "download_file", "update_defs_from_s3", "scan_file", "copy",
     "get_object_tagging", "put_object_tagging", "publish", "patch", "metrics_send",
     "remove"}

CountCalls(i, op) == Cardinality({n \in DOMAIN calls[i] : calls[i][n].op = op})

CountSinks(i, name) == Cardinality({n \in DOMAIN sinks[i] : sinks[i][n].sink = name})

\* the statements of lambda_handler in program order
StageOrder ==
    <<"event_object", "event_webhook", "webhook_scan_started", "download_s3_object",
      "update_defs_from_s3", "scan_file", "set_av_metadata", "set_av_tags",
      "put_object_tagging", "sns_scan_results", "webhook_scan_results", "metrics_send",
      "os_remove", "returned">>

StageRank(p) == CHOOSE n \in DOMAIN StageOrder : StageOrder[n] = p

\* the statement that makes the external call op
OpStage(op) ==
    CASE op = "post" -> "webhook_scan_started"
      [] op = "download_file" -> "download_s3_object"
      [] op = "copy" -> "set_av_metadata"
      [] op = "get_object_tagging" -> "set_av_tags"
      [] op = "publish" -> "sns_scan_results"
      [] op = "patch" -> "webhook_scan_results"
      [] op = "remove" -> "os_remove"
      [] OTHER -> op

\* the statement that calls the sink function
SinkStage(name) == name

\* the tags whose key is neither the status nor the timestamp key
IsOtherTag(t) == t.Key \notin {AV_STATUS_METADATA, AV_TIMESTAMP_METADATA}
OtherTags(ts) == SelectSeq(ts, IsOtherTag)

-----------------------------------------------------------------------------
(* Claims, continued *)

\* C11: the webhook-start POST is made exactly once per invocation, before the
\* object download, the definitions update and the scan; the webhook-result
\* PATCH is made only after the scan has returned.
C11_WebhookStartOrdering ==
    \A i \in Invocations :
        /\ CountCalls(i, "post") <= 1
        /\ (Entered(i, "webhook_scan_started") /\ webhook[i] \notin {Unbound, <<>>})
               => CountCalls(i, "post") = 1
        /\ \A n \in DOMAIN calls[i] :
               /\ calls[i][n].op \in FatalOps =>
                      \E m \in 1..(n - 1) : calls[i][m].op = "post" /\ calls[i][m].ok
               /\ calls[i][n].op = "patch" =>
                      \E m \in 1..(n - 1) : calls[i][m].op = "scan_file" /\ calls[i][m].ok

\* the invocation returned after a POST, a scan and a PATCH
C11_Witness ==
    /\ pc["i1"] = "returned"
    /\ calls["i1"][1].op = "post"
    /\ Performed("i1", "scan_file") /\ Performed("i1", "patch")

\* what C12 says of multiplicity and retry, apart from how a failure ends
AtMostOnce(i) ==
    /\ \A op \in Ops : CountCalls(i, op) <= 1
    /\ \A name \in VerdictSinks \cup {"webhook_scan_started"} : CountSinks(i, name) <= 1
    /\ (sinks[i] # <<>> /\ sinks[i][Len(sinks[i])].sink \in VerdictSinks)
           => Cardinality({n \in DOMAIN calls[i] :
                              calls[i][n].op = "scan_file" /\ calls[i][n].ok}) = 1
    /\ \A n \in DOMAIN calls[i] : ~calls[i][n].ok => n = Len(calls[i])

\* C12 as stated: each external operation is performed at most once, one verdict
\* is produced, and a failed operation is not retried but fails the invocation.
C12_FailureAlwaysSurfaces ==
    \A i \in Invocations :
        /\ AtMostOnce(i)
        /\ \A n \in DOMAIN calls[i] : ~calls[i][n].ok => pc[i] = "raised"

\* C12 amended: each external operation is performed at most once, one verdict
\* is produced when the scan returns, and a failed operation is not retried; it
\* fails the invocation, except a failed file removal, which is swallowed.
C12_AtMostOnceNoRetry ==
    \A i \in Invocations :
        /\ AtMostOnce(i)
        /\ \A n \in DOMAIN calls[i] :
               ~calls[i][n].ok =>
                   IF calls[i][n].op = "remove"
                   THEN pc[i] = "returned" /\ error[i] = None
                   ELSE pc[i] = "raised" /\ error[i] # None

\* one invocation raised at a failed PATCH, the other ran every operation
C12_Witness ==
    /\ pc["i1"] = "raised" /\ Failed("i1", "patch")
    /\ pc["i2"] = "returned" /\ Performed("i2", "copy") /\ Performed("i2", "publish")

\* C13: with the metadata-update flag unset, a CLEAN scan and no failing sink,
\* the metadata sink is not called, the object's tags end with status CLEAN and
\* one timestamp, and metrics is sent exactly once with status CLEAN; the
\* metadata sink is called only when the flag is set.
C13_MetadataFlagGating ==
    \A i \in Invocations :
        /\ Entered(i, "set_av_metadata") => "AV_UPDATE_METADATA" \in environ
        /\ Performed(i, "copy") => "AV_UPDATE_METADATA" \in environ
        /\ (/\ pc[i] = "returned"
            /\ "AV_UPDATE_METADATA" \notin environ
            /\ Verdict(i) = CLEAN)
           => LET ts == tagging[s3_object[i]] IN
              /\ ~Entered(i, "set_av_metadata")
              /\ metadata[s3_object[i]] \in {NoMetadata,
                     [NoMetadata EXCEPT ![AV_STATUS_METADATA] = INFECTED, !["owner"] = "me"]}
              /\ CountTags(ts, AV_STATUS_METADATA) = 1
              /\ CountTags(ts, AV_TIMESTAMP_METADATA) = 1
              /\ \E n \in DOMAIN ts : ts[n] = Tag(AV_STATUS_METADATA, CLEAN)
              /\ CountCalls(i, "metrics_send") = 1
              /\ \E n \in DOMAIN calls[i] :
                     /\ calls[i][n].op = "metrics_send"
                     /\ calls[i][n].status = CLEAN

\* scenario A on an object that carried an INFECTED status tag
C13_Witness ==
    /\ pc["i1"] = "returned" /\ "AV_UPDATE_METADATA" \notin environ
    /\ Verdict("i1") = CLEAN
    /\ \E n \in DOMAIN curr_tags["i1"] :
           curr_tags["i1"][n] = Tag(AV_STATUS_METADATA, INFECTED)

\* the external calls and the sink calls made so far are in program order,
\* each made once, each but the last successful, all before the current statement
LogsInOrder(i) ==
    /\ \A m, n \in DOMAIN calls[i] :
           m < n => /\ StageRank(OpStage(calls[i][m].op)) < StageRank(OpStage(calls[i][n].op))
                    /\ calls[i][m].ok
    /\ \A m, n \in DOMAIN sinks[i] :
           m < n => StageRank(SinkStage(sinks[i][m].sink)) < StageRank(SinkStage(sinks[i][n].sink))
    /\ pc[i] \notin {"idle", "raised"} =>
           /\ \A n \in DOMAIN calls[i] :
                  /\ StageRank(OpStage(calls[i][n].op)) < StageRank(pc[i])
                  /\ calls[i][n].ok
           /\ \A n \in DOMAIN sinks[i] :
                  StageRank(SinkStage(sinks[i][n].sink)) < StageRank(pc[i])
           /\ StageRank(pc[i]) > StageRank("event_object") => s3_object[i] # NoObject
           /\ StageRank(pc[i]) > StageRank("event_webhook") => webhook[i] # Unbound
    /\ Performed(i, "copy") => "AV_UPDATE_METADATA" \in environ

\* a step of invocation i moves to the next statement in program order (past
\* set_av_metadata when it is disabled) or raises
PcAdvances(i) ==
    pc'[i] # pc[i] =>
        /\ pc[i] \notin {"idle", "raised", "returned"}
        /\ \/ pc'[i] = "raised"
           \/ StageRank(pc'[i]) = StageRank(pc[i]) + 1
           \/ /\ pc[i] = "scan_file" /\ pc'[i] = "set_av_tags"
              /\ "AV_UPDATE_METADATA" \notin environ

\* C14: the steps of an invocation occur in the fixed order decode object,
\* decode webhook, webhook-start, download, definitions update, scan, metadata
\* sink (if enabled), tag sink, topic sink, webhook-result sink, metrics sink,
\* file removal; none before its predecessors succeeded, none twice.
C14_LinearStageOrder ==
    /\ [](\A i \in Invocations : LogsInOrder(i))
    /\ [][\A i \in Invocations : PcAdvances(i)]_vars

\* an invocation that made all eleven external calls and returned
C14_Witness ==
    /\ pc["i1"] = "returned"
    /\ \A op \in Ops : CountCalls("i1", op) = 1

\* C15: if clamav.update_defs_from_s3 fails, the scan is not invoked, no verdict
\* is produced or handed to a sink, and the invocation raises.
C15_UpdateFailureFatal ==
    \A i \in Invocations :
        Failed(i, "update_defs_from_s3") =>
            /\ pc[i] = "raised" /\ error[i] # None
            /\ ~Performed(i, "scan_file")
            /\ scan_result[i] = None
            /\ \A n \in DOMAIN sinks[i] : sinks[i][n].sink \notin VerdictSinks
            /\ \A op \in {"copy", "put_object_tagging", "publish", "patch", "metrics_send"} :
                   ~Performed(i, op)

\* the definitions update raised after a successful download
C15_Witness ==
    /\ Failed("i1", "update_defs_from_s3")
    /\ fs[file_path["i1"]] = "i1"

\* C16: the PATCH payload has is_infected true exactly when the verdict is
\* INFECTED, then result is "INFECTED: " followed by the diagnostic text; for a
\* CLEAN verdict is_infected is false and result is "clean"; status is
\* "success" and filename is what follows the last '/' of the key.
C16_WebhookResultPayload ==
    \A i \in Invocations :
        \A n \in DOMAIN calls[i] :
            calls[i][n].op = "patch" =>
                LET m == calls[i][n].arg.json
                    key == s3_object[i].key
                    f == m.filename
                IN /\ m.is_infected = (Verdict(i) = INFECTED)
                   /\ Verdict(i) = INFECTED => m.result = <<"INFECTED: ", scan_output[i]>>
                   /\ Verdict(i) = CLEAN => (~m.is_infected /\ m.result = <<"clean">>)
                   /\ m.status = "success"
                   /\ \A k \in DOMAIN f : f[k] # "/"
                   /\ Len(f) <= Len(key)
                   /\ SubSeq(key, Len(key) - Len(f) + 1, Len(key)) = f
                   /\ Len(f) < Len(key) => key[Len(key) - Len(f)] = "/"
                   /\ calls[i][n].arg.url = webhook[i]

\* an INFECTED verdict was PATCHed for a key that has a directory part
C16_Witness ==
    /\ Performed("i1", "patch")
    /\ Verdict("i1") = INFECTED /\ scan_output["i1"] = "OK"
    /\ \E k \in DOMAIN s3_object["i1"].key : s3_object["i1"].key[k] = "/"

\* C17: when all sinks have succeeded and os.remove fails because the file is
\* already gone, the invocation returns normally and no sink is re-run.
C17_CleanupFailureSwallowed ==
    \A i \in Invocations :
        Failed(i, "remove") =>
            /\ pc[i] = "returned"
            /\ error[i] = None
            /\ \A name \in VerdictSinks : CountSinks(i, name) <= 1
            /\ sinks[i][Len(sinks[i])].sink = "metrics_send"
            /\ calls[i][Len(calls[i])].op = "remove"

\* the file was removed by the other invocation before this one's os.remove
C17_Witness ==
    /\ Failed("i1", "remove")
    /\ Performed("i2", "remove") /\ ~Failed("i2", "remove")

\* C18: a successful set_av_metadata leaves the object's metadata equal to the
\* previous map with only the status and timestamp keys set, every other key
\* and the content type unchanged, written by one copy with REPLACE.
MetadataFrame(i) ==
    (pc[i] = "set_av_metadata" /\ pc'[i] = "set_av_tags") =>
        LET o == s3_object[i]
            c == calls'[i][Len(calls'[i])]
        IN /\ metadata'[o][AV_STATUS_METADATA] = scan_result[i]
           /\ \E t \in now..MaxTime : metadata'[o][AV_TIMESTAMP_METADATA] = Strftime(t)
           /\ \A k \in MetaKeys \ {AV_STATUS_METADATA, AV_TIMESTAMP_METADATA} :
                  metadata'[o][k] = metadata[o][k]
           /\ \A p \in Objects \ {o} : metadata'[p] = metadata[p]
           /\ content_type' = content_type
           /\ Len(calls'[i]) = Len(calls[i]) + 1
           /\ c.op = "copy" /\ c.ok
           /\ c.arg.MetadataDirective = "REPLACE"
           /\ c.arg.ContentType = content_type[o]
           /\ c.arg.Metadata = metadata'[o]

C18_MetadataFrame == [][\A i \in Invocations : MetadataFrame(i)]_vars

\* set_av_metadata overwrote an old status and kept the owner key
C18_Witness ==
    /\ pc["i1"] = "set_av_tags" /\ pc["i2"] = "set_av_metadata"
    /\ scan_result["i1"] = CLEAN
    /\ metadata[TagsObject] =
           [NoMetadata EXCEPT ![AV_STATUS_METADATA] = CLEAN,
                              ![AV_TIMESTAMP_METADATA] = Strftime(now),
                              !["owner"] = "me"]
    /\ content_type[TagsObject] = "application/pdf"

\* C19: when two invocations interleave the read and the write of set_av_tags
\* in any order, after both writes the tag set holds exactly one status tag and
\* one timestamp tag, and every other tag that was there before both reads is
\* still there with its value.
C19_TagSinkInterleaved ==
    (pc["i1"] = "sns_scan_results" /\ pc["i2"] = "sns_scan_results") =>
        LET ts == tagging[TagsObject] IN
        /\ CountTags(ts, AV_STATUS_METADATA) = 1
        /\ CountTags(ts, AV_TIMESTAMP_METADATA) = 1
        /\ \E i \in Invocations, n \in DOMAIN ts :
               ts[n] = Tag(AV_STATUS_METADATA, scan_result[i])
        /\ \A i \in Invocations : OtherTags(ts) = OtherTags(curr_tags[i])

\* both invocations read the same tag set, with an owner tag and an old status
\* tag, before either wrote
C19_Witness ==
    /\ pc["i1"] = "sns_scan_results" /\ pc["i2"] = "sns_scan_results"
    /\ curr_tags["i1"] = curr_tags["i2"]
    /\ OtherTags(curr_tags["i1"]) # <<>>
    /\ CountTags(curr_tags["i1"], AV_STATUS_METADATA) = 1
    /\ scan_result["i1"] # scan_result["i2"]

\* C20: the webhook-result PATCH carries result "clean" only if the verdict is
\* CLEAN; an ERROR verdict is never reported as "clean".
C20_NoFalseClean ==
    \A i \in Invocations :
        \A n \in DOMAIN calls[i] :
            (calls[i][n].op = "patch" /\ calls[i][n].arg.json.result = <<"clean">>)
                => /\ Verdict(i) = CLEAN
                   /\ \E k \in DOMAIN tagging[s3_object[i]] :
                          tagging[s3_object[i]][k] = Tag(AV_STATUS_METADATA, CLEAN)

====
